---- MODULE Spec2Model ----
(***************************************************************************)
(* A model of src/src/cas/grpcClient.ts: the grpc client of the NativeLink *)
(* cache action (saveCache, FileAsyncIterable, getCacheVersion,            *)
(* getCacheEntry, getActionResultProms, downloadCache, writeToFile)        *)
(* against a remote ByteStream / ActionCache service, and CasCacheService  *)
(* (saveCache, restoreCache, checkPaths, checkKey), which calls it.        *)
(*                                                                         *)
(* Strings are sequences of one-character strings, so that joining the     *)
(* version components with "|" is computed and not assumed.  A file is the *)
(* sequence of its bytes.                                                  *)
(***************************************************************************)
EXTENDS Integers, Sequences, FiniteSets, TLC

\* ------------------------------------------------------------------ bounds
\* largest archive, in bytes
MaxSize == 3
\* largest uploadChunkSize a caller passes
MaxChunk == 2
\* longest restoreKeys list
MaxRestoreKeys == 2
\* largest archive of a session
MaxArchive == 1
\* client calls in one session
MaxOps == 3
\* calls of getCacheVersion that are compared
MaxVersionCalls == 2

\* ------------------------------------------------------- program constants
MESSAGE_SIZE == 64 * 1024

\* ------------------------------------------------------------- input sets
Bytes == {0, 1}

RECURSIVE SeqsUpTo(_, _)
SeqsUpTo(S, n) ==
    IF n = 0 THEN {<<>>}
    ELSE LET shorter == SeqsUpTo(S, n - 1)
         IN  shorter \cup {Append(s, x) : s \in {t \in shorter : Len(t) = n - 1}, x \in S}

\* the archives createTar may leave at archivePath
Archives == SeqsUpTo(Bytes, MaxSize)
SessionArchives == SeqsUpTo(Bytes, MaxArchive)

\* uploadChunkSize: 0 stands for both undefined and 0, which `||` treats alike
UploadChunkSizes == 0 .. MaxChunk

PathLists == {<< <<"a">> >>, << <<"b">> >>}
Keys == {<<"k">>, <<"r">>}
CompressionMethods == {<<"z">>}
Platforms == {"linux", "win32"}
UUIDs == {"u1"}

Min(a, b) == IF a < b THEN a ELSE b

CeilDiv(a, b) == (a + b - 1) \div b

RECURSIVE Concat(_)
\* the concatenation of a sequence of sequences
Concat(ss) == IF ss = <<>> THEN <<>> ELSE Head(ss) \o Concat(Tail(ss))

RECURSIVE SumDataLen(_)
\* the number of data bytes a sequence of frames carries
SumDataLen(fs) == IF fs = <<>> THEN 0 ELSE Len(Head(fs).data) + SumDataLen(Tail(fs))

\* ------------------------------------------------------------ environment
VARIABLES platform, remoteCacheUrl, apiKey, versionSalt
envVars == <<platform, remoteCacheUrl, apiKey, versionSalt>>

\* ------------------------------------------------------------ remote store
\* blobs: resource [hash, size] -> bytes; actionCache: key hash -> outputFiles
VARIABLES blobs, actionCache
remoteVars == <<blobs, actionCache>>

\* ------------------------------------------------------ the running call
\* pc: where the running call stands; params: its arguments; outcome: how the
\* last call ended; rpcLog: the remote calls the running call has issued
VARIABLES pc, params, outcome, rpcLog, opsDone
callVars == <<pc, params, outcome, rpcLog, opsDone>>

\* ------------------------------------------------------ FileAsyncIterable
\* archive: the bytes of the file at archivePath; file: the FileAsyncIterable
\* object; resourceName .. frames: the locals of its iterator and the frames
\* it has yielded; writeResult: what byteStreamClient.write returned
VARIABLES archive, file, resourceName, readPos, offset, remaining, frames,
          writeResult
iterVars == <<archive, file, resourceName, readPos, offset, remaining, frames,
              writeResult>>

\* ------------------------------------------------------------ getCacheEntry
\* proms: the fallback lookups, in restoreKeys order; settleOrder: the order
\* in which they completed
VARIABLES primaryResult, proms, settleOrder
resolveVars == <<primaryResult, proms, settleOrder>>

\* ------------------------------------------------------------ downloadCache
\* readLeft: what the read stream has still to deliver (writeToFile appends
\* what it delivers to the file at archivePath)
VARIABLES readLeft
dlVars == <<readLeft>>

\* ------------------------------------------------------------ history
\* uploads: every (bytes, digest) an upload stream was opened for;
\* saves: every save that ended successfully
VARIABLES uploads, saves
histVars == <<uploads, saves>>

\* ---------------------------------------------------------- CasCacheService
\* svc: where the running CasCacheService call stands ("none": the client is
\* used directly); svcParams: its arguments; pending: the completion its
\* try/catch block left for the finally block; svcResult: what the caller got;
\* archivePath: the local `archivePath`; archiveCreated: a file was created
\* there; unlinks: the calls of unlinkFile; unpacked: extractTar was called;
\* raised: the name of the error the try block raised, "none" without one
VARIABLES svc, svcParams, pending, svcResult, archivePath, archiveCreated, unlinks,
          unpacked, raised
svcVars == <<svc, svcParams, pending, svcResult, archivePath, archiveCreated, unlinks,
             unpacked, raised>>

\* ---------------------------------------------------------- getCacheVersion
\* versionCalls: the calls of getCacheVersion made so far, each with its
\* arguments and its result
VARIABLES versionCalls
fpVars == <<versionCalls>>

vars == <<envVars, remoteVars, callVars, iterVars, resolveVars, dlVars, histVars,
          svcVars, fpVars>>

\* ---------------------------------------------------------- getCacheVersion
RECURSIVE Join(_, _)
\* components.join(sep)
Join(components, sep) ==
    IF components = <<>> THEN <<>>
    ELSE IF Len(components) = 1 THEN Head(components)
    ELSE Head(components) \o sep \o Join(Tail(components), sep)

\* createHash("sha256").update(s).digest("hex"): a string, injective on its
\* input and, by its mark, none of the keys and paths of the input sets
Sha256Hex(s) == <<"#">> \o s

\* key and compressionMethod: <<>> stands for undefined and "", both falsy
VersionComponents(paths, compressionMethod, enableCrossOsArchive, key, plat, salt) ==
    paths
      \o (IF compressionMethod # <<>> THEN <<compressionMethod>> ELSE <<>>)
      \o (IF plat = "win32" /\ ~enableCrossOsArchive
          THEN << <<"w">> >> ELSE <<>>)
      \o (IF key # <<>> THEN <<key>> ELSE <<>>)
      \o <<salt>>

getCacheVersion(paths, compressionMethod, enableCrossOsArchive, key, plat, salt) ==
    Sha256Hex(Join(VersionComponents(paths, compressionMethod,
                                     enableCrossOsArchive, key, plat, salt),
                   <<"|">>))

\* ------------------------------------------------------------ idle values
NoParams == [op |-> "none"]
NoOutcome == [kind |-> "none"]
EmptyMap == [x \in {} |-> x]
NoRead == [found |-> FALSE, data |-> <<>>]
NoFile == [fileByteLength |-> 0, fileHash |-> Sha256Hex(<<>>),
           digest |-> [hash |-> Sha256Hex(<<>>), sizeBytes |-> 0],
           chunkSize |-> MESSAGE_SIZE]
NoResource == [uuid |-> "none", hash |-> Sha256Hex(<<>>), size |-> 0]

\* no CasCacheService call is running
NoServiceCall ==
    /\ svc = "none"
    /\ svcParams = NoParams
    /\ pending = NoOutcome
    /\ svcResult = NoOutcome
    /\ archivePath = ""
    /\ archiveCreated = FALSE
    /\ unlinks = <<>>
    /\ unpacked = FALSE
    /\ raised = "none"

\* ------------------------------------------------------ FileAsyncIterable
\* data.uploadChunkSize || MESSAGE_SIZE
EffectiveChunkSize(uploadChunkSize) ==
    IF uploadChunkSize # 0 THEN uploadChunkSize ELSE MESSAGE_SIZE

\* new FileAsyncIterable({filePath, fileHash, fileByteLength, uploadChunkSize})
NewFileAsyncIterable(fileHash, fileByteLength, uploadChunkSize) ==
    [fileByteLength |-> fileByteLength,
     fileHash       |-> fileHash,
     digest         |-> [hash |-> fileHash, sizeBytes |-> fileByteLength],
     chunkSize      |-> EffectiveChunkSize(uploadChunkSize)]

\* offset += chunk_size
NextWriteOffset(off, chunk_size, chunkSize) == off + chunk_size

\* finishWrite: remaining <= 0
FinishWrite(rem) == rem <= 0

\* The iterator starts: the resource name is built and the read stream opened.
OpenUpload ==
    /\ pc = "write_open"
    /\ \E uuid \in UUIDs :
         resourceName' = [uuid |-> uuid, hash |-> file.digest.hash,
                          size |-> file.fileByteLength]
    /\ readPos' = 0
    /\ offset' = 0
    /\ remaining' = file.fileByteLength - 0
    /\ frames' = <<>>
    /\ uploads' = uploads \cup {[content |-> archive, hash |-> file.digest.hash]}
    /\ rpcLog' = Append(rpcLog, "write")
    /\ pc' = "write_iter"
    /\ UNCHANGED <<svcVars, fpVars, envVars, remoteVars, params, outcome, opsDone, archive, file,
                   writeResult, resolveVars, dlVars, saves>>

\* One turn of `for await (const chunk of readableStream)`: the read stream
\* delivers the next n bytes of the file, 1 <= n <= highWaterMark (fs hands
\* on whatever a read returned, a short read included), and the frame is
\* yielded.
YieldFrame ==
    /\ pc = "write_iter"
    /\ readPos < Len(archive)
    /\ \E n \in 1 .. Min(file.chunkSize, Len(archive) - readPos) :
         LET chunk      == SubSeq(archive, readPos + 1, readPos + n)
             chunk_size == Min(remaining, file.chunkSize)
             rem        == remaining - chunk_size
             request    == [resourceName |-> resourceName,
                            data         |-> chunk,
                            writeOffset  |-> offset,
                            finishWrite  |-> FinishWrite(rem)]
         IN  /\ remaining' = rem
             /\ frames' = Append(frames, request)
             /\ offset' = NextWriteOffset(offset, chunk_size, file.chunkSize)
             /\ readPos' = readPos + n
    /\ UNCHANGED <<svcVars, fpVars, envVars, remoteVars, callVars, archive, file, resourceName,
                   writeResult, resolveVars, dlVars, histVars>>

\* The read stream ends and with it the iterator: every frame has been sent.
EndOfStream ==
    /\ pc = "write_iter"
    /\ readPos = Len(archive)
    /\ pc' = "write_sent"
    /\ UNCHANGED <<svcVars, fpVars, envVars, remoteVars, params, outcome, rpcLog, opsDone, iterVars,
                   resolveVars, dlVars, histVars>>

\* ---------------------------------------------------------------- saveCache
\* the mutant of ShortCommit: the committed size is never compared
ShortCommitIgnored(committedSize, archiveFileSize) == FALSE

\* writeResult.committedSize < archiveFileSize
ShortCommit(committedSize, archiveFileSize) == committedSize < archiveFileSize

\* new UpdateActionResultRequest({actionResult: {outputFiles: [{path, digest}]},
\*                               actionDigest: {hash: keyHash}})
UpdateActionResultRequest ==
    [actionDigest |-> [hash |-> getCacheVersion(params.paths, params.compressionMethod,
                                                params.enableCrossOsArchive, params.key,
                                                platform, versionSalt)],
     actionResult |-> [outputFiles |-> << [path |-> "archivePath",
                                           digest |-> file.digest] >>]]

\* How a call ends: the outcome is recorded, the locals of the iterator and
\* of the read stream are gone and the client is idle again.
Finish(result) ==
    /\ outcome' = result
    /\ pc' = "idle"
    /\ opsDone' = opsDone + 1
    /\ file' = NoFile
    /\ resourceName' = NoResource
    /\ readPos' = 0
    /\ offset' = 0
    /\ remaining' = 0
    /\ frames' = <<>>
    /\ readLeft' = NoRead

\* saveCache is called on the archive createTar left at archivePath: the
\* environment is checked, the file hash computed and the FileAsyncIterable
\* built.
SaveCache ==
    /\ pc = "idle"
    /\ opsDone < MaxOps
    /\ \E key \in Keys, paths \in PathLists, cm \in CompressionMethods,
          cross \in BOOLEAN, ucs \in UploadChunkSizes, arch \in SessionArchives :
         /\ archive' = arch
         /\ params' = [op |-> "saveCache", key |-> key, paths |-> paths,
                       compressionMethod |-> cm, enableCrossOsArchive |-> cross,
                       archiveFileSize |-> Len(arch), uploadChunkSize |-> ucs]
         /\ rpcLog' = <<>>
         /\ writeResult' = NoOutcome
         /\ IF ~remoteCacheUrl \/ ~apiKey
            THEN Finish([kind |-> "error", op |-> "saveCache", error |-> "environment"])
            ELSE /\ file' = NewFileAsyncIterable(
                                getCacheVersion(paths, cm, cross, <<>>, platform,
                                                versionSalt),
                                Len(arch), ucs)
                 /\ pc' = "write_open"
                 /\ UNCHANGED <<outcome, opsDone, resourceName, readPos, offset,
                                remaining, frames, dlVars>>
    /\ UNCHANGED <<svcVars, fpVars, envVars, remoteVars, resolveVars, histVars>>

\* byteStreamClient.write rejects: the error is logged and thrown again.
WriteFails ==
    /\ pc \in {"write_iter", "write_sent"}
    /\ params.op = "saveCache"
    /\ writeResult' = [kind |-> "error"]
    /\ Finish([kind |-> "error", op |-> "saveCache", error |-> "write"])
    /\ UNCHANGED <<svcVars, fpVars, envVars, remoteVars, params, rpcLog, archive, resolveVars, histVars>>

\* What the remote stores when a write stream commits committedSize bytes:
\* with every byte committed the received data becomes the blob named by the
\* frames' resource name, unless the store keeps a blob it already has.
StoreBlob(committedSize, keepExisting) ==
    IF frames # <<>> /\ committedSize = SumDataLen(frames)
                     /\ committedSize >= frames[1].resourceName.size
    THEN LET name == [hash |-> frames[1].resourceName.hash,
                      size |-> frames[1].resourceName.size]
         IN  IF name \in DOMAIN blobs /\ keepExisting THEN blobs
             ELSE (name :> Concat([i \in 1 .. Len(frames) |-> frames[i].data])) @@ blobs
    ELSE blobs

\* byteStreamClient.write resolves with a WriteResponse: a short commit throws,
\* otherwise the key hash is computed and updateActionResult is called.
WriteResponds ==
    /\ pc = "write_sent"
    /\ params.op = "saveCache"
    /\ \E committedSize \in 0 .. file.fileByteLength, keepExisting \in BOOLEAN :
         /\ writeResult' = [kind |-> "ok", committedSize |-> committedSize]
         /\ blobs' = StoreBlob(committedSize, keepExisting)
         /\ IF ShortCommit(committedSize, params.archiveFileSize)
            THEN /\ Finish([kind |-> "error", op |-> "saveCache", error |-> "short"])
                 /\ UNCHANGED rpcLog
            ELSE /\ rpcLog' = Append(rpcLog, "updateActionResult")
                 /\ pc' = "register"
                 /\ UNCHANGED <<outcome, opsDone, file, resourceName, readPos,
                                offset, remaining, frames, dlVars>>
    /\ UNCHANGED <<svcVars, fpVars, envVars, actionCache, params, archive, resolveVars, histVars>>

\* updateActionResult resolves: the remote holds the association and saveCache
\* returns.
UpdateActionResultOk ==
    /\ pc = "register"
    /\ LET req == UpdateActionResultRequest
       IN  /\ actionCache' = (req.actionDigest.hash :> req.actionResult.outputFiles)
                               @@ actionCache
           /\ saves' = saves \cup {[content |-> archive, digest |-> file.digest,
                                    keyHash |-> req.actionDigest.hash,
                                    args |-> [paths |-> params.paths,
                                              key |-> params.key,
                                              compressionMethod |-> params.compressionMethod,
                                              enableCrossOsArchive |->
                                                  params.enableCrossOsArchive]]}
    /\ Finish([kind |-> "ok", op |-> "saveCache"])
    /\ UNCHANGED <<svcVars, fpVars, envVars, blobs, params, rpcLog, archive, writeResult, resolveVars,
                   uploads>>

\* updateActionResult rejects: the error is logged and thrown again.
UpdateActionResultFails ==
    /\ pc = "register"
    /\ Finish([kind |-> "error", op |-> "saveCache", error |-> "register"])
    /\ UNCHANGED <<svcVars, fpVars, envVars, remoteVars, params, rpcLog, archive, writeResult,
                   resolveVars, histVars>>

\* ------------------------------------------------------------ downloadCache
\* the digests the remote's associations name as their first output
RegisteredDigests ==
    {actionCache[h][1].digest : h \in {k \in DOMAIN actionCache : Len(actionCache[k]) > 0}}

\* resourceName: `blobs/${blobDigest.hash}/${blobDigest.sizeBytes}`
ReadResource(blobDigest) == [hash |-> blobDigest.hash, size |-> blobDigest.sizeBytes]

\* writeToFile: each response's data is appended to the file
WriteChunk(written, data) == written \o data

\* downloadCache is called with a digest an association names: the read stream
\* is opened and writeToFile creates the file at archivePath.
DownloadCache ==
    /\ pc = "idle"
    /\ opsDone < MaxOps
    /\ \E blobDigest \in RegisteredDigests :
         /\ params' = [op |-> "downloadCache", blobDigest |-> blobDigest]
         /\ readLeft' = IF ReadResource(blobDigest) \in DOMAIN blobs
                        THEN [found |-> TRUE, data |-> blobs[ReadResource(blobDigest)]]
                        ELSE [found |-> FALSE, data |-> <<>>]
    /\ archive' = <<>>
    /\ writeResult' = NoOutcome
    /\ rpcLog' = <<"read">>
    /\ pc' = "read_iter"
    /\ UNCHANGED <<svcVars, fpVars, envVars, remoteVars, outcome, opsDone, file, resourceName, readPos,
                   offset, remaining, frames, resolveVars, histVars>>

\* One ReadResponse arrives: its data goes through the pipeline to the file.
ReadChunk ==
    /\ pc = "read_iter"
    /\ readLeft.found
    /\ \E n \in 1 .. Len(readLeft.data) :
         /\ archive' = WriteChunk(archive, SubSeq(readLeft.data, 1, n))
         /\ readLeft' = [readLeft EXCEPT !.data = SubSeq(@, n + 1, Len(@))]
    /\ UNCHANGED <<svcVars, fpVars, envVars, remoteVars, callVars, file, resourceName, readPos, offset,
                   remaining, frames, writeResult, resolveVars, histVars>>

\* The read stream ends: the pipeline finishes and downloadCache returns.
ReadEnds ==
    /\ pc = "read_iter"
    /\ readLeft.found
    /\ readLeft.data = <<>>
    /\ Finish([kind |-> "ok", op |-> "downloadCache", blobDigest |-> params.blobDigest])
    /\ UNCHANGED <<svcVars, fpVars, envVars, remoteVars, params, rpcLog, archive, writeResult,
                   resolveVars, histVars>>

\* the mutant of ReadFails: the error of the read stream is swallowed
ReadFailsSilently ==
    /\ pc = "read_iter"
    /\ Finish([kind |-> "ok", op |-> "downloadCache", blobDigest |-> params.blobDigest])
    /\ UNCHANGED <<svcVars, fpVars, envVars, remoteVars, params, rpcLog, archive,
                   writeResult, resolveVars, histVars>>

\* The read stream fails (the blob is not there, or the transport broke at any
\* point): the error is logged and thrown again, the file stays as written.
ReadFails ==
    /\ pc = "read_iter"
    /\ Finish([kind |-> "error", op |-> "downloadCache", error |-> "read"])
    /\ UNCHANGED <<svcVars, fpVars, envVars, remoteVars, params, rpcLog, archive, writeResult,
                   resolveVars, histVars>>

\* ------------------------------------------------------------ getCacheEntry
Pending == [kind |-> "pending"]
Undefined == [undefined |-> TRUE]

\* the gRPC status codes a failed lookup may carry, and the texts of errors
ErrorCodes == {"NotFound", "Unavailable"}
RawMessages == {"m1"}

\* What actionCacheClient.getActionResult({actionDigest: {hash}}) may settle
\* with: the association the remote holds, NotFound when it holds none, or at
\* any time a ConnectError of another code or an error of another class.
LookupOutcomes(hash) ==
    {IF hash \in DOMAIN actionCache
     THEN [kind |-> "ActionResult", outputFiles |-> actionCache[hash]]
     ELSE [kind |-> "ConnectError", code |-> "NotFound", rawMessage |-> "m1"]}
      \cup {[kind |-> "ConnectError", code |-> c, rawMessage |-> m] :
              c \in ErrorCodes \ {"NotFound"}, m \in RawMessages}
      \cup {[kind |-> "Error", message |-> "e"]}

\* the mutant of KeyHash: the key is left out of the fingerprint
KeyHashWithoutKey(key) ==
    getCacheVersion(params.paths, params.compressionMethod,
                    params.enableCrossOsArchive, <<>>, platform, versionSalt)

\* the fingerprint getCacheEntry and getActionResultProms look a key up by
KeyHash(key) ==
    getCacheVersion(params.paths, params.compressionMethod,
                    params.enableCrossOsArchive, key, platform, versionSalt)

\* the mutant of FirstOutputDigest: the last output is taken
LastOutputDigest(outputFiles) == outputFiles[Len(outputFiles)].digest

\* outputFiles[0].digest
FirstOutputDigest(outputFiles) == outputFiles[1].digest

\* the mutant of IsGenuineError: NotFound counts as an error too
IsAnyConnectError(p) == TRUE

\* p.code != Code.NotFound, of a ConnectError p
IsGenuineError(p) == p.code # "NotFound"

\* the mutant of AddMessage: the message is assigned, not appended
SetMessage(errMsg, part) == <<part>>

\* errMsg += part
AddMessage(errMsg, part) == Append(errMsg, part)

\* the mutant of PromiseAll: the results in the order the lookups completed
PromiseAllByCompletion(ps, order) == [i \in 1 .. Len(ps) |-> ps[order[i]]]

\* await Promise.all(proms): the results in the order of proms
PromiseAll(ps, order) == [i \in 1 .. Len(ps) |-> ps[i]]

RECURSIVE ScanStopsAtError(_, _, _, _)
\* the mutant of ScanFrom: the scan throws at the first failed lookup
ScanStopsAtError(ps, i, hasError, errMsg) ==
    IF i > Len(ps)
    THEN [kind |-> "ok", op |-> "getCacheEntry", value |-> Undefined]
    ELSE LET p == ps[i]
         IN  IF p.kind = "ActionResult" /\ Len(p.outputFiles) > 0
             THEN [kind |-> "ok", op |-> "getCacheEntry",
                   value |-> FirstOutputDigest(p.outputFiles)]
             ELSE IF p.kind = "ConnectError" /\ ~IsGenuineError(p)
             THEN ScanStopsAtError(ps, i + 1, hasError, errMsg)
             ELSE [kind |-> "error", op |-> "getCacheEntry",
                   message |-> <<[code |-> IF p.kind = "ConnectError" THEN p.code
                                           ELSE "none",
                                  message |-> IF p.kind = "ConnectError"
                                              THEN p.rawMessage
                                              ELSE IF p.kind = "Error" THEN p.message
                                              ELSE "undefined"]>>]

RECURSIVE ScanSkipsEmpty(_, _, _, _)
\* the mutant of ScanFrom: an association without an output is passed over
\* like a NotFound
ScanSkipsEmpty(ps, i, hasError, errMsg) ==
    IF i > Len(ps)
    THEN IF hasError
         THEN [kind |-> "error", op |-> "getCacheEntry", message |-> errMsg]
         ELSE [kind |-> "ok", op |-> "getCacheEntry", value |-> Undefined]
    ELSE LET p == ps[i]
         IN  IF p.kind = "ActionResult" /\ Len(p.outputFiles) > 0
             THEN [kind |-> "ok", op |-> "getCacheEntry",
                   value |-> FirstOutputDigest(p.outputFiles)]
             ELSE IF p.kind = "ActionResult"
             THEN ScanSkipsEmpty(ps, i + 1, hasError, errMsg)
             ELSE IF p.kind = "ConnectError"
             THEN IF IsGenuineError(p)
                  THEN ScanSkipsEmpty(ps, i + 1, TRUE,
                                      AddMessage(errMsg, [code |-> p.code,
                                                          message |-> p.rawMessage]))
                  ELSE ScanSkipsEmpty(ps, i + 1, hasError, errMsg)
             ELSE ScanSkipsEmpty(ps, i + 1, TRUE,
                                 AddMessage(errMsg, [code |-> "none",
                                                     message |-> p.message]))

RECURSIVE ScanFrom(_, _, _, _)
\* for (const p of proms) {...}; if (hasError) throw new Error(errMsg); return
ScanFrom(ps, i, hasError, errMsg) ==
    IF i > Len(ps)
    THEN IF hasError
         THEN [kind |-> "error", op |-> "getCacheEntry", message |-> errMsg]
         ELSE [kind |-> "ok", op |-> "getCacheEntry", value |-> Undefined]
    ELSE LET p == ps[i]
         IN  IF p.kind = "ActionResult" /\ Len(p.outputFiles) > 0
             THEN [kind |-> "ok", op |-> "getCacheEntry",
                   value |-> FirstOutputDigest(p.outputFiles)]
             ELSE IF p.kind = "ConnectError"
             THEN IF IsGenuineError(p)
                  THEN ScanFrom(ps, i + 1, TRUE,
                                AddMessage(errMsg, [code |-> p.code,
                                                    message |-> p.rawMessage]))
                  ELSE ScanFrom(ps, i + 1, hasError, errMsg)
             ELSE ScanFrom(ps, i + 1, TRUE,
                           AddMessage(errMsg,
                                      [code |-> "none",
                                       message |-> IF p.kind = "Error" THEN p.message
                                                   ELSE "undefined"]))

\* The primary lookup settles.  An association with an output is returned; one
\* without throws an Error, which like every error that is no ConnectError is
\* logged and thrown again.  A ConnectError, NotFound or not, leaves the catch
\* block: with no restoreKeys the result is undefined, otherwise
\* getActionResultProms issues one lookup per restore key.
PrimarySettles ==
    /\ pc = "primary"
    /\ \E r \in LookupOutcomes(KeyHash(params.primaryKey)) :
         /\ primaryResult' = r
         /\ IF r.kind = "ActionResult" /\ Len(r.outputFiles) > 0
            THEN /\ Finish([kind |-> "ok", op |-> "getCacheEntry",
                            value |-> FirstOutputDigest(r.outputFiles)])
                 /\ UNCHANGED <<rpcLog, proms, settleOrder>>
            ELSE IF r.kind # "ConnectError"
            THEN /\ Finish([kind |-> "error", op |-> "getCacheEntry",
                            message |-> <<[code |-> "none",
                                           message |-> IF r.kind = "Error"
                                                       THEN r.message
                                                       ELSE "no file"]>>])
                 /\ UNCHANGED <<rpcLog, proms, settleOrder>>
            ELSE IF Len(params.restoreKeys) = 0
            THEN /\ Finish([kind |-> "ok", op |-> "getCacheEntry", value |-> Undefined])
                 /\ UNCHANGED <<rpcLog, proms, settleOrder>>
            ELSE /\ proms' = [i \in 1 .. Len(params.restoreKeys) |-> Pending]
                 /\ rpcLog' = rpcLog \o [i \in 1 .. Len(params.restoreKeys)
                                           |-> "getActionResult"]
                 /\ pc' = "fallbacks"
                 /\ UNCHANGED <<outcome, opsDone, file, resourceName, readPos,
                                offset, remaining, frames, dlVars, settleOrder>>
    /\ UNCHANGED <<svcVars, fpVars, envVars, remoteVars, params, archive, writeResult, histVars>>

\* One fallback lookup settles, in any order; `.catch(err => err)` makes a
\* rejection the promise's value.
FallbackSettles ==
    /\ pc = "fallbacks"
    /\ \E i \in 1 .. Len(proms) :
         /\ proms[i] = Pending
         /\ \E r \in LookupOutcomes(KeyHash(params.restoreKeys[i])) :
              proms' = [proms EXCEPT ![i] = r]
         /\ settleOrder' = Append(settleOrder, i)
    /\ UNCHANGED <<svcVars, fpVars, envVars, remoteVars, callVars, iterVars, primaryResult, dlVars,
                   histVars>>

\* the mutant of PromiseAllResolves: the wait ends with the first lookup that
\* found an entry
PromiseAnyResolves(ps) ==
    \/ \A i \in 1 .. Len(ps) : ps[i] # Pending
    \/ \E i \in 1 .. Len(ps) : ps[i].kind = "ActionResult"

\* await Promise.all(proms) resolves: with `.catch(err => err)` no promise
\* rejects, so it resolves when every one of them has settled
PromiseAllResolves(ps) == \A i \in 1 .. Len(ps) : ps[i] # Pending

\* Every fallback lookup has settled: Promise.all resolves and the results are
\* scanned.
ScanProms ==
    /\ pc = "fallbacks"
    /\ PromiseAllResolves(proms)
    /\ Finish(ScanFrom(PromiseAll(proms, settleOrder), 1, FALSE, <<>>))
    /\ UNCHANGED <<svcVars, fpVars, envVars, remoteVars, params, rpcLog, archive, writeResult,
                   resolveVars, histVars>>

\* ---------------------------------------------------------- CasCacheService
MAX_GRPC_REQUEST_SIZE == 4 * 1024 * 1024 - 1024
\* fileSizeLimit (20 * 1024 * 1024 * 1024 bytes) in units of 1024 bytes: the
\* number of bytes does not fit the 32-bit integers of the model checker
fileSizeLimitKB == 20 * 1024 * 1024
\* uploadChunkSize * 1024
KB == 1024
\* key.length > 512
MaxKeyLength == 512
\* keys.length > 10
MaxKeys == 10

ValidationErrorName == "ValidationError"

\* the names of the errors the utilities of @actions/cache (createTar, listTar,
\* extractTar, createTempDirectory) may throw: their code is not part of the
\* source, so any name the catch blocks tell apart
ErrorNames == {"Error", ValidationErrorName, "ReserveCacheError"}

Throw(name, from) == [kind |-> "throw", name |-> name, from |-> from]
Return(value) == [kind |-> "return", value |-> value]
\* `return undefined`
ReturnUndefined == [kind |-> "return", undefined |-> TRUE]

\* checkPaths throws: !paths || paths.length === 0
checkPathsThrows(paths) == Len(paths) = 0

\* the mutant of checkKeyThrows: no key is refused
checkKeyAccepts(key) == FALSE

\* checkKey throws: key.length > 512, or the key does not match /^[^,]*$/
checkKeyThrows(key) ==
    \/ Len(key) > MaxKeyLength
    \/ \E i \in 1 .. Len(key) : key[i] = ","

\* keys.length > 10
TooManyKeys(keys) == Len(keys) > MaxKeys

\* archiveFileSize > fileSizeLimit
OverFileSizeLimit(archiveFileSize) ==
    \/ archiveFileSize \div KB > fileSizeLimitKB
    \/ archiveFileSize \div KB = fileSizeLimitKB /\ archiveFileSize % KB > 0

\* the mutant of ChunkSizeTooLarge: no chunk size is refused
ChunkSizeAccepted(uploadChunkSize) == FALSE

\* uploadChunkSize && uploadChunkSize * 1024 > MAX_GRPC_REQUEST_SIZE, which
\* for an integer n is n > floor(MAX_GRPC_REQUEST_SIZE / 1024): written so, the
\* product does not leave the 32-bit integers of the model checker
ChunkSizeTooLarge(uploadChunkSize) ==
    uploadChunkSize # 0 /\ uploadChunkSize > MAX_GRPC_REQUEST_SIZE \div KB

\* the mutant of RestoreCatch: every error is thrown again
RestoreRethrow(name) == Throw(name, "try")

\* the catch block of restoreCache: a ValidationError is thrown again, any
\* other error is logged and the function goes on to `return undefined`
RestoreCatch(name) ==
    IF name = ValidationErrorName THEN Throw(name, "try") ELSE ReturnUndefined

\* the mutant of SaveCatch: a caught error counts as a save
SaveCatchSucceeds(name, cacheId) == Return(1)

\* the catch block of saveCache: a ValidationError is thrown again, any other
\* error is logged and the function goes on to `return cacheId`
SaveCatch(name, cacheId) ==
    IF name = ValidationErrorName THEN Throw(name, "try") ELSE Return(cacheId)

\* the name of the error a failed client call threw: the ConnectError of a
\* remote call, or a plain Error
ClientErrorName(out) ==
    IF out.op = "downloadCache" THEN "ConnectError"
    ELSE IF out.op = "saveCache" /\ out.error \in {"write", "register"} THEN "ConnectError"
    ELSE "Error"

TempArchivePath == "tmp/cache.tzst"

\* the mutant of LookupOnly: the option is not looked at
LookupOnlyIgnored(options) == FALSE

\* options?.lookupOnly
LookupOnly(options) == options.lookupOnly

\* restoreCache up to its first remote call: the paths and the keys are
\* checked, the compression method is found and getCacheEntry issues the
\* primary lookup.
RestoreValidate ==
    /\ svc = "restore_called"
    /\ LET keys == <<svcParams.primaryKey>> \o svcParams.restoreKeys
       IN  IF \/ checkPathsThrows(svcParams.paths)
              \/ TooManyKeys(keys)
              \/ \E i \in 1 .. Len(keys) : checkKeyThrows(keys[i])
           THEN /\ svcResult' = Throw(ValidationErrorName, "validation")
                /\ svc' = "returned"
                /\ UNCHANGED <<pc, params, rpcLog, primaryResult>>
           ELSE \/ /\ svcResult' = Throw("Error", "prepare")
                   /\ svc' = "returned"
                   /\ UNCHANGED <<pc, params, rpcLog, primaryResult>>
                \/ \E cm \in CompressionMethods :
                     /\ params' = [op |-> "getCacheEntry", paths |-> svcParams.paths,
                                   primaryKey |-> svcParams.primaryKey,
                                   restoreKeys |-> svcParams.restoreKeys,
                                   compressionMethod |-> cm,
                                   enableCrossOsArchive |-> svcParams.enableCrossOsArchive]
                     /\ rpcLog' = Append(rpcLog, "getActionResult")
                     /\ primaryResult' = Pending
                     /\ pc' = "primary"
                     /\ svc' = "restore_resolve"
                     /\ UNCHANGED svcResult
    /\ UNCHANGED <<fpVars, envVars, remoteVars, outcome, opsDone, iterVars, proms,
                   settleOrder, dlVars, histVars, svcParams, pending, archivePath,
                   archiveCreated, unlinks, unpacked, raised>>

\* getCacheEntry has returned or thrown.  A failure is caught; without an
\* entry restoreCache returns undefined, with lookupOnly the entry's hash;
\* otherwise the temporary directory is made and downloadCache opens the read
\* stream and creates the file at archivePath.
RestoreAfterLookup ==
    /\ svc = "restore_resolve"
    /\ pc = "idle"
    /\ IF outcome.kind = "error"
       THEN /\ raised' = ClientErrorName(outcome)
            /\ pending' = RestoreCatch(ClientErrorName(outcome))
            /\ svc' = "finally"
            /\ UNCHANGED <<pc, params, rpcLog, archive, readLeft, archivePath,
                           archiveCreated>>
       ELSE IF outcome.value = Undefined
       THEN /\ pending' = ReturnUndefined
            /\ svc' = "finally"
            /\ UNCHANGED <<pc, params, rpcLog, archive, readLeft, archivePath,
                           archiveCreated, raised>>
       ELSE IF LookupOnly(svcParams)
       THEN /\ pending' = Return(outcome.value.hash)
            /\ svc' = "finally"
            /\ UNCHANGED <<pc, params, rpcLog, archive, readLeft, archivePath,
                           archiveCreated, raised>>
       ELSE \/ \E name \in ErrorNames :
                 /\ raised' = name
                 /\ pending' = RestoreCatch(name)
                 /\ svc' = "finally"
                 /\ UNCHANGED <<pc, params, rpcLog, archive, readLeft, archivePath,
                                archiveCreated>>
            \/ /\ archivePath' = TempArchivePath
               /\ params' = [op |-> "downloadCache", blobDigest |-> outcome.value]
               /\ readLeft' = IF ReadResource(outcome.value) \in DOMAIN blobs
                              THEN [found |-> TRUE,
                                    data |-> blobs[ReadResource(outcome.value)]]
                              ELSE [found |-> FALSE, data |-> <<>>]
               /\ archive' = <<>>
               /\ archiveCreated' = TRUE
               /\ rpcLog' = Append(rpcLog, "read")
               /\ pc' = "read_iter"
               /\ svc' = "restore_download"
               /\ UNCHANGED <<pending, raised>>
    /\ UNCHANGED <<fpVars, envVars, remoteVars, outcome, opsDone, file, resourceName,
                   readPos, offset, remaining, frames, writeResult, resolveVars,
                   histVars, svcParams, svcResult, unlinks, unpacked>>

\* downloadCache has returned or thrown.  A failure is caught; otherwise the
\* archive is listed and measured, and extractTar unpacks it: each may throw.
RestoreAfterDownload ==
    /\ svc = "restore_download"
    /\ pc = "idle"
    /\ IF outcome.kind = "error"
       THEN /\ raised' = ClientErrorName(outcome)
            /\ pending' = RestoreCatch(ClientErrorName(outcome))
            /\ UNCHANGED unpacked
       ELSE \/ \E name \in ErrorNames :
                 /\ raised' = name
                 /\ pending' = RestoreCatch(name)
                 /\ unpacked' \in BOOLEAN
            \/ /\ pending' = Return(params.blobDigest.hash)
               /\ unpacked' = TRUE
               /\ UNCHANGED raised
    /\ svc' = "finally"
    /\ UNCHANGED <<fpVars, envVars, remoteVars, callVars, iterVars, resolveVars, dlVars,
                   histVars, svcParams, svcResult, archivePath, archiveCreated,
                   unlinks>>

\* saveCache up to the archive path: the chunk size, the paths and the key are
\* checked, the compression method is found, the paths are resolved (to none:
\* a ValidationError) and the temporary directory is made.
SaveValidate ==
    /\ svc = "save_called"
    /\ IF \/ ChunkSizeTooLarge(svcParams.uploadChunkSize)
          \/ checkPathsThrows(svcParams.paths)
          \/ checkKeyThrows(svcParams.key)
       THEN /\ svcResult' = Throw(ValidationErrorName, "validation")
            /\ svc' = "returned"
            /\ UNCHANGED archivePath
       ELSE \/ /\ svcResult' = Throw("Error", "prepare")
               /\ svc' = "returned"
               /\ UNCHANGED archivePath
            \/ /\ svcResult' = Throw(ValidationErrorName, "resolvePaths")
               /\ svc' = "returned"
               /\ UNCHANGED archivePath
            \/ /\ archivePath' = TempArchivePath
               /\ svc' = "save_pack"
               /\ UNCHANGED svcResult
    /\ UNCHANGED <<fpVars, envVars, remoteVars, callVars, iterVars, resolveVars, dlVars,
                   histVars, svcParams, pending, archiveCreated, unlinks, unpacked,
                   raised>>

\* The try block of saveCache up to the upload: createTar packs the archive
\* (or throws, as listTar may), the size is checked against the limit, and
\* grpcClient.saveCache checks the environment, computes the file hash and
\* builds the FileAsyncIterable.
SavePack ==
    /\ svc = "save_pack"
    /\ \/ \E name \in ErrorNames :
            /\ raised' = name
            /\ pending' = SaveCatch(name, -1)
            /\ archiveCreated' \in BOOLEAN
            /\ svc' = "finally"
            /\ UNCHANGED <<pc, params, outcome, archive, file, writeResult>>
       \/ \E arch \in Archives, cm \in CompressionMethods, isGhes \in BOOLEAN :
            /\ archive' = arch
            /\ archiveCreated' = TRUE
            /\ IF OverFileSizeLimit(Len(arch)) /\ ~isGhes
               THEN /\ raised' = "Error"
                    /\ pending' = SaveCatch("Error", -1)
                    /\ svc' = "finally"
                    /\ UNCHANGED <<pc, params, outcome, file, writeResult>>
               ELSE /\ params' = [op |-> "saveCache", key |-> svcParams.key,
                                  paths |-> svcParams.paths, compressionMethod |-> cm,
                                  enableCrossOsArchive |-> svcParams.enableCrossOsArchive,
                                  archiveFileSize |-> Len(arch),
                                  uploadChunkSize |-> svcParams.uploadChunkSize]
                    /\ svc' = "save_upload"
                    /\ writeResult' = NoOutcome
                    /\ UNCHANGED <<pending, raised>>
                    /\ IF ~remoteCacheUrl \/ ~apiKey
                       THEN /\ outcome' = [kind |-> "error", op |-> "saveCache",
                                           error |-> "environment"]
                            /\ UNCHANGED <<pc, file>>
                       ELSE /\ file' = NewFileAsyncIterable(
                                           getCacheVersion(svcParams.paths, cm,
                                               svcParams.enableCrossOsArchive, <<>>,
                                               platform, versionSalt),
                                           Len(arch), svcParams.uploadChunkSize)
                            /\ pc' = "write_open"
                            /\ outcome' = NoOutcome
    /\ UNCHANGED <<fpVars, envVars, remoteVars, rpcLog, opsDone, resourceName, readPos,
                   offset, remaining, frames, resolveVars, dlVars, histVars, svcParams,
                   svcResult, archivePath, unlinks, unpacked>>

\* grpcClient.saveCache has returned, and cacheId becomes 1, or it has thrown
\* and the error is caught with cacheId still -1.
SaveAfterUpload ==
    /\ svc = "save_upload"
    /\ pc = "idle"
    /\ outcome.kind # "none"
    /\ raised' = IF outcome.kind = "ok" THEN "none" ELSE ClientErrorName(outcome)
    /\ pending' = IF outcome.kind = "ok" THEN Return(1)
                  ELSE SaveCatch(ClientErrorName(outcome), -1)
    /\ svc' = "finally"
    /\ UNCHANGED <<fpVars, envVars, remoteVars, callVars, iterVars, resolveVars, dlVars,
                   histVars, svcParams, svcResult, archivePath, archiveCreated,
                   unlinks, unpacked>>

\* the mutant of AfterUnlink: a failed removal fails the operation
AfterUnlinkStrict(completion, removed) ==
    IF removed THEN completion ELSE Throw("Error", "finally")

\* try { await utils.unlinkFile(archivePath) } catch { core.debug(...) }: the
\* completion of the try/catch blocks stands, whatever unlinkFile did
AfterUnlink(completion, removed) == completion

\* The finally block of restoreCache and of saveCache: unlinkFile(archivePath)
\* is tried, which fails when no file is there and may fail when one is; then
\* the call returns or throws what its try/catch blocks left.
Finally ==
    /\ svc = "finally"
    /\ \E removed \in (IF archiveCreated /\ archivePath # "" THEN BOOLEAN ELSE {FALSE}) :
         /\ unlinks' = Append(unlinks, [path |-> archivePath, removed |-> removed,
                                        existed |-> archiveCreated])
         /\ svcResult' = AfterUnlink(pending, removed)
    /\ svc' = "returned"
    /\ UNCHANGED <<fpVars, envVars, remoteVars, callVars, iterVars, resolveVars, dlVars,
                   histVars, svcParams, pending, archivePath, archiveCreated, unpacked,
                   raised>>

\* ------------------------------------------- specification of the session
\* A client that has made no call yet, against an empty remote store.
Init ==
    /\ platform \in Platforms
    /\ remoteCacheUrl \in BOOLEAN
    /\ apiKey \in BOOLEAN
    /\ versionSalt = <<"1">>
    /\ blobs = EmptyMap
    /\ actionCache = EmptyMap
    /\ pc = "idle"
    /\ params = NoParams
    /\ outcome = NoOutcome
    /\ rpcLog = <<>>
    /\ opsDone = 0
    /\ archive = <<>>
    /\ file = NoFile
    /\ resourceName = NoResource
    /\ readPos = 0
    /\ offset = 0
    /\ remaining = 0
    /\ frames = <<>>
    /\ writeResult = NoOutcome
    /\ primaryResult = NoOutcome
    /\ proms = <<>>
    /\ settleOrder = <<>>
    /\ readLeft = NoRead
    /\ uploads = {}
    /\ saves = {}
    /\ NoServiceCall
    /\ versionCalls = <<>>

Next ==
    \/ SaveCache
    \/ OpenUpload
    \/ YieldFrame
    \/ EndOfStream
    \/ WriteFails
    \/ WriteResponds
    \/ UpdateActionResultOk
    \/ UpdateActionResultFails
    \/ DownloadCache
    \/ ReadChunk
    \/ ReadEnds
    \/ ReadFails

Spec == Init /\ [][Next]_vars

\* ------------------------------------------ specification of one saveCache
\* The state of a saveCache call after new FileAsyncIterable(...): an archive
\* of any size and any uploadChunkSize, the digest built from the hash of
\* paths and compression method.
InitSave ==
    /\ platform \in Platforms
    /\ remoteCacheUrl = TRUE
    /\ apiKey = TRUE
    /\ versionSalt = <<"1">>
    /\ blobs = EmptyMap
    /\ actionCache = EmptyMap
    /\ archive \in Archives
    /\ \E paths \in PathLists, cm \in CompressionMethods, cross \in BOOLEAN,
          key \in Keys, ucs \in UploadChunkSizes :
         /\ params = [op |-> "saveCache", key |-> key, paths |-> paths,
                      compressionMethod |-> cm, enableCrossOsArchive |-> cross,
                      archiveFileSize |-> Len(archive), uploadChunkSize |-> ucs]
         /\ file = NewFileAsyncIterable(
                       getCacheVersion(paths, cm, cross, <<>>, platform, versionSalt),
                       Len(archive), ucs)
    /\ pc = "write_open"
    /\ outcome = NoOutcome
    /\ rpcLog = <<>>
    /\ opsDone = 0
    /\ resourceName = NoResource
    /\ readPos = 0
    /\ offset = 0
    /\ remaining = 0
    /\ frames = <<>>
    /\ writeResult = NoOutcome
    /\ primaryResult = NoOutcome
    /\ proms = <<>>
    /\ settleOrder = <<>>
    /\ readLeft = NoRead
    /\ uploads = {}
    /\ saves = {}
    /\ NoServiceCall
    /\ versionCalls = <<>>

NextSave ==
    \/ OpenUpload
    \/ YieldFrame
    \/ EndOfStream
    \/ WriteFails
    \/ WriteResponds
    \/ UpdateActionResultOk
    \/ UpdateActionResultFails

SpecSave == InitSave /\ [][NextSave]_vars

\* ------------------------------------------ specification of getCacheEntry
\* what the remote may hold for a key: an association without an output, with
\* one output, or with two
OutputA == [path |-> "archivePath", digest |-> [hash |-> Sha256Hex(<<"A">>), sizeBytes |-> 1]]
OutputB == [path |-> "archivePath", digest |-> [hash |-> Sha256Hex(<<"B">>), sizeBytes |-> 2]]
Associations == {<<>>, <<OutputA>>, <<OutputB, OutputA>>}

\* the keys of a resolution: three, so that the primary key can be absent while
\* two restore keys hold different associations
ResolveKeys == Keys \cup {<<"s">>}
RestoreKeyLists == SeqsUpTo(ResolveKeys, MaxRestoreKeys)

\* the maps from a subset of the hashes to associations
CachesOver(hashes) ==
    UNION {[d -> Associations] : d \in SUBSET hashes}

\* The state when getCacheEntry has issued the primary lookup, against a
\* remote that holds any associations for the keys of these paths
\* (enableCrossOsArchive at its default).
InitResolve ==
    /\ platform \in Platforms
    /\ remoteCacheUrl = TRUE
    /\ apiKey = TRUE
    /\ versionSalt = <<"1">>
    /\ blobs = EmptyMap
    /\ \E paths \in {<< <<"a">> >>}, primaryKey \in ResolveKeys,
          restoreKeys \in RestoreKeyLists, cm \in CompressionMethods,
          cross \in {FALSE} :
         /\ params = [op |-> "getCacheEntry", paths |-> paths,
                      primaryKey |-> primaryKey, restoreKeys |-> restoreKeys,
                      compressionMethod |-> cm, enableCrossOsArchive |-> cross]
         /\ actionCache \in CachesOver({getCacheVersion(paths, cm, cross, k, platform,
                                                        versionSalt) : k \in ResolveKeys})
    /\ pc = "primary"
    /\ outcome = NoOutcome
    /\ rpcLog = <<"getActionResult">>
    /\ opsDone = 0
    /\ archive = <<>>
    /\ file = NoFile
    /\ resourceName = NoResource
    /\ readPos = 0
    /\ offset = 0
    /\ remaining = 0
    /\ frames = <<>>
    /\ writeResult = NoOutcome
    /\ primaryResult = Pending
    /\ proms = <<>>
    /\ settleOrder = <<>>
    /\ readLeft = NoRead
    /\ uploads = {}
    /\ saves = {}
    /\ NoServiceCall
    /\ versionCalls = <<>>

NextResolve == PrimarySettles \/ FallbackSettles \/ ScanProms

SpecResolve == InitResolve /\ [][NextResolve]_vars

\* ------------------------------- specification of one CasCacheService call
\* keys checkKey refuses: one with a comma, one of 513 characters; and a key
\* of 512 characters, which it accepts
CommaKey == <<"k", ",">>
LongKey == [i \in 1 .. MaxKeyLength + 1 |-> "x"]
LimitKey == [i \in 1 .. MaxKeyLength |-> "x"]

\* ten restore keys: eleven keys with the primary key
TooManyRestoreKeys == [i \in 1 .. MaxKeys |-> <<"r">>]

ServicePathLists == {<<>>, << <<"a">> >>}
ServiceSaveKeys == {<<"k">>, CommaKey, LongKey, LimitKey}
ServicePrimaryKeys == {<<"k">>, CommaKey, LongKey}
ServiceRestoreKeyLists ==
    SeqsUpTo({<<"r">>, <<"s">>}, MaxRestoreKeys)
      \cup {TooManyRestoreKeys, << <<"r">>, CommaKey >>}

\* the UploadChunkSize inputs: unset, small ones, the largest that passes the
\* check, the smallest that does not, and one beyond the limit in bytes
ServiceChunkSizes ==
    (0 .. MaxChunk) \cup {MAX_GRPC_REQUEST_SIZE \div KB,
                          MAX_GRPC_REQUEST_SIZE \div KB + 1,
                          MAX_GRPC_REQUEST_SIZE + 1}

\* a remote that holds the blobs the associations name, or none of them
AllBlobs ==
    (ReadResource(OutputA.digest) :> <<0>>) @@ (ReadResource(OutputB.digest) :> <<0, 1>>)

\* A CasCacheService that is called once: saveCache against an empty remote,
\* or restoreCache against a remote with any associations for the keys "k"
\* and "r" (and none for "s").
InitService ==
    /\ platform \in Platforms
    /\ versionSalt = <<"1">>
    /\ \/ /\ remoteCacheUrl \in BOOLEAN
          /\ apiKey \in BOOLEAN
          /\ blobs = EmptyMap
          /\ actionCache = EmptyMap
          /\ svc = "save_called"
          /\ \E paths \in ServicePathLists, key \in ServiceSaveKeys, cross \in BOOLEAN,
                ucs \in ServiceChunkSizes :
               svcParams = [op |-> "saveCache", paths |-> paths, key |-> key,
                            enableCrossOsArchive |-> cross, uploadChunkSize |-> ucs]
       \/ /\ remoteCacheUrl = TRUE
          /\ apiKey = TRUE
          /\ blobs \in {EmptyMap, AllBlobs}
          /\ svc = "restore_called"
          /\ \E paths \in ServicePathLists, primaryKey \in ServicePrimaryKeys,
                restoreKeys \in ServiceRestoreKeyLists, lookupOnly \in BOOLEAN :
               /\ svcParams = [op |-> "restoreCache", paths |-> paths,
                               primaryKey |-> primaryKey, restoreKeys |-> restoreKeys,
                               lookupOnly |-> lookupOnly,
                               enableCrossOsArchive |-> FALSE]
               /\ actionCache \in CachesOver(
                      {getCacheVersion(<< <<"a">> >>, cm, FALSE, k, platform, versionSalt) :
                         k \in Keys, cm \in CompressionMethods})
    /\ pending = NoOutcome
    /\ svcResult = NoOutcome
    /\ archivePath = ""
    /\ archiveCreated = FALSE
    /\ unlinks = <<>>
    /\ unpacked = FALSE
    /\ raised = "none"
    /\ versionCalls = <<>>
    /\ pc = "idle"
    /\ params = NoParams
    /\ outcome = NoOutcome
    /\ rpcLog = <<>>
    /\ opsDone = 0
    /\ archive = <<>>
    /\ file = NoFile
    /\ resourceName = NoResource
    /\ readPos = 0
    /\ offset = 0
    /\ remaining = 0
    /\ frames = <<>>
    /\ writeResult = NoOutcome
    /\ primaryResult = NoOutcome
    /\ proms = <<>>
    /\ settleOrder = <<>>
    /\ readLeft = NoRead
    /\ uploads = {}
    /\ saves = {}

NextService ==
    \/ SaveValidate
    \/ SavePack
    \/ OpenUpload
    \/ YieldFrame
    \/ EndOfStream
    \/ WriteFails
    \/ WriteResponds
    \/ UpdateActionResultOk
    \/ UpdateActionResultFails
    \/ SaveAfterUpload
    \/ RestoreValidate
    \/ PrimarySettles
    \/ FallbackSettles
    \/ ScanProms
    \/ RestoreAfterLookup
    \/ ReadChunk
    \/ ReadEnds
    \/ ReadFails
    \/ RestoreAfterDownload
    \/ Finally

SpecService == InitService /\ [][NextService]_vars

\* ------------------------ specification of a saveCache and a getCacheEntry
\* getCacheEntry is called after a saveCache has ended: it computes the hash
\* of the primary key and issues the primary lookup.
GetCacheEntry ==
    /\ pc = "idle"
    /\ outcome.kind # "none"
    /\ outcome.op = "saveCache"
    /\ \E paths \in PathLists, primaryKey \in Keys, restoreKeys \in SeqsUpTo(Keys, 1),
          cm \in CompressionMethods, cross \in BOOLEAN :
         params' = [op |-> "getCacheEntry", paths |-> paths, primaryKey |-> primaryKey,
                    restoreKeys |-> restoreKeys, compressionMethod |-> cm,
                    enableCrossOsArchive |-> cross]
    /\ rpcLog' = <<"getActionResult">>
    /\ primaryResult' = Pending
    /\ proms' = <<>>
    /\ settleOrder' = <<>>
    /\ pc' = "primary"
    /\ UNCHANGED <<svcVars, fpVars, envVars, remoteVars, outcome, opsDone, iterVars,
                   dlVars, histVars>>

\* the associations earlier saves may have left: none, or an older one under
\* every fingerprint of these paths and keys
OlderAssociations ==
    {EmptyMap,
     [h \in {getCacheVersion(paths, cm, cross, key, plat, <<"1">>) :
                paths \in PathLists, cm \in CompressionMethods, cross \in BOOLEAN,
                key \in Keys, plat \in Platforms} |-> <<OutputA>>]}

\* The state of a saveCache call after new FileAsyncIterable(...), on an
\* archive of a session, against a remote that earlier saves have used.
InitSaveLookup ==
    /\ platform \in Platforms
    /\ remoteCacheUrl = TRUE
    /\ apiKey = TRUE
    /\ versionSalt = <<"1">>
    /\ blobs = EmptyMap
    /\ actionCache \in OlderAssociations
    /\ archive \in SessionArchives
    /\ \E paths \in PathLists, cm \in CompressionMethods, cross \in BOOLEAN,
          key \in Keys, ucs \in UploadChunkSizes :
         /\ params = [op |-> "saveCache", key |-> key, paths |-> paths,
                      compressionMethod |-> cm, enableCrossOsArchive |-> cross,
                      archiveFileSize |-> Len(archive), uploadChunkSize |-> ucs]
         /\ file = NewFileAsyncIterable(
                       getCacheVersion(paths, cm, cross, <<>>, platform, versionSalt),
                       Len(archive), ucs)
    /\ pc = "write_open"
    /\ outcome = NoOutcome
    /\ rpcLog = <<>>
    /\ opsDone = 0
    /\ resourceName = NoResource
    /\ readPos = 0
    /\ offset = 0
    /\ remaining = 0
    /\ frames = <<>>
    /\ writeResult = NoOutcome
    /\ primaryResult = NoOutcome
    /\ proms = <<>>
    /\ settleOrder = <<>>
    /\ readLeft = NoRead
    /\ uploads = {}
    /\ saves = {}
    /\ NoServiceCall
    /\ versionCalls = <<>>

NextSaveLookup ==
    \/ OpenUpload
    \/ YieldFrame
    \/ EndOfStream
    \/ WriteFails
    \/ WriteResponds
    \/ UpdateActionResultOk
    \/ UpdateActionResultFails
    \/ GetCacheEntry
    \/ PrimarySettles
    \/ FallbackSettles
    \/ ScanProms

SpecSaveLookup == InitSaveLookup /\ [][NextSaveLookup]_vars

\* ---------------------------------------- specification of getCacheVersion
\* the `key` argument: left out, or a string, the empty one included
NoKey == [given |-> FALSE, text |-> <<>>]
VersionKeys == {NoKey, [given |-> TRUE, text |-> <<>>], [given |-> TRUE, text |-> <<"k">>]}

\* paths over an alphabet with the separator, one or two of them
VersionPathLists ==
    SeqsUpTo({<<"a">>, <<"a", "|", "a">>}, 2) \ {<<>>}

\* what getCacheVersion sees of `key`: undefined and "" are both falsy
KeyArgument(key) == IF key.given THEN key.text ELSE <<>>

\* getCacheVersion is called with any arguments; the call and its result are
\* recorded.
GetCacheVersionCall ==
    /\ Len(versionCalls) < MaxVersionCalls
    /\ \E paths \in VersionPathLists, cm \in CompressionMethods, cross \in BOOLEAN,
          key \in VersionKeys :
         versionCalls' = Append(versionCalls,
             [args |-> [paths |-> paths, compressionMethod |-> cm,
                        enableCrossOsArchive |-> cross, key |-> key],
              version |-> getCacheVersion(paths, cm, cross, KeyArgument(key),
                                          platform, versionSalt)])
    /\ UNCHANGED <<envVars, remoteVars, callVars, iterVars, resolveVars, dlVars,
                   histVars, svcVars>>

\* A process on either platform, its salt read, that has not yet called
\* getCacheVersion.
InitVersion ==
    /\ Init
    /\ remoteCacheUrl = TRUE
    /\ apiKey = TRUE

NextVersion == GetCacheVersionCall

SpecVersion == InitVersion /\ [][NextVersion]_vars

\* ------------------------------------------------------ claims: the frames
FinishFrames == {i \in 1 .. Len(frames) : frames[i].finishWrite}

\* C1: when the iterator has ended, an upload of declared size S with chunk
\* size C has yielded exactly ceil(S/C) frames, finishWrite is true on exactly
\* one frame, and that frame is the last one.
C1_FrameCountAndFinish ==
    pc = "write_sent" =>
        /\ Len(frames) = CeilDiv(file.fileByteLength, file.chunkSize)
        /\ Cardinality(FinishFrames) = 1
        /\ FinishFrames = {Len(frames)}

\* C2: whatever chunks the file reader delivers, the first frame has
\* writeOffset 0, every later frame's writeOffset is the previous frame's
\* writeOffset plus the length of the previous frame's data, writeOffset
\* strictly increases, and once the iterator has ended the frames' data
\* lengths sum to the declared file size.
C2_OffsetsFollowData ==
    pc \in {"write_iter", "write_sent"} =>
        /\ Len(frames) >= 1 => frames[1].writeOffset = 0
        /\ \A i \in 2 .. Len(frames) :
             /\ frames[i].writeOffset
                  = frames[i - 1].writeOffset + Len(frames[i - 1].data)
             /\ frames[i].writeOffset > frames[i - 1].writeOffset
        /\ pc = "write_sent" => SumDataLen(frames) = file.fileByteLength

\* ------------------------------------------------------ claims: saveCache
Issued(rpc) == \E i \in 1 .. Len(rpcLog) : rpcLog[i] = rpc

\* the write of the last saveCache committed every declared byte
FullCommit == writeResult.kind = "ok" /\ writeResult.committedSize >= Len(archive)

\* C3: updateActionResult is called only after a write stream that committed
\* at least the declared archive size; a saveCache whose write stream failed,
\* or committed less than the declared size, has failed without calling
\* updateActionResult.
C3_RegisterOnlyAfterFullCommit ==
    /\ Issued("updateActionResult") => FullCommit
    /\ (pc = "idle" /\ outcome.kind # "none" /\ outcome.op = "saveCache" /\ Issued("write")
          /\ ~FullCommit)
         => (outcome.kind = "error" /\ ~Issued("updateActionResult"))

\* C3 witness: a saveCache has ended on a short commit.
C3_Witness ==
    /\ pc = "idle"
    /\ outcome.kind = "error"
    /\ outcome.op = "saveCache"
    /\ outcome.error = "short"
    /\ writeResult.kind = "ok"
    /\ writeResult.committedSize < Len(archive)

\* every upload of the session belongs to a save that ended successfully
AllSavesSucceeded ==
    \A u \in uploads : \E s \in saves : s.content = u.content /\ s.digest.hash = u.hash

\* C4: after successful saves only, a download by the digest a save registered
\* leaves at archivePath the bytes that save uploaded, of the registered size.
C4_RoundTrip ==
    (/\ pc = "idle"
     /\ outcome.kind = "ok"
     /\ outcome.op = "downloadCache"
     /\ AllSavesSucceeded)
      => \A s \in saves :
           s.digest = outcome.blobDigest
             => (archive = s.content /\ Len(archive) = s.digest.sizeBytes)

\* C5: the digest hash of an upload is a function of the archive's bytes and
\* of nothing else: uploads of different bytes use different hashes, uploads
\* of the same bytes the same hash.
C5_HashFromBytesOnly ==
    \A u1, u2 \in uploads : (u1.content = u2.content) <=> (u1.hash = u2.hash)

\* -------------------------------------------------- claims: getCacheEntry
LookupsIssued == Cardinality({i \in 1 .. Len(rpcLog) : rpcLog[i] = "getActionResult"})

IsHit(p) == p.kind = "ActionResult" /\ Len(p.outputFiles) > 0
IsNotFound(p) == p.kind = "ConnectError" /\ p.code = "NotFound"
IsFailure(p) == p.kind = "Error" \/ (p.kind = "ConnectError" /\ p.code # "NotFound")

Resolved == pc = "idle" /\ outcome.kind # "none" /\ outcome.op = "getCacheEntry"

HitIndices == {i \in 1 .. Len(proms) : IsHit(proms[i])}
FirstHit == CHOOSE i \in HitIndices : \A j \in HitIndices : i <= j

\* C6: when the primary lookup returns an association with at least one
\* output, getCacheEntry returns the digest of its first output and has issued
\* no lookup but the primary one, whatever restoreKeys holds.
C6_PrimaryHitNoFallback ==
    IsHit(primaryResult) =>
        /\ Resolved
        /\ outcome.kind = "ok"
        /\ outcome.value = primaryResult.outputFiles[1].digest
        /\ LookupsIssued = 1

\* C6 witness: a primary hit on an association of two outputs, with restore
\* keys given.
C6_Witness ==
    /\ Resolved
    /\ IsHit(primaryResult)
    /\ Len(primaryResult.outputFiles) = 2
    /\ Len(params.restoreKeys) > 0

\* C7: a primary lookup that fails with anything other than NotFound makes
\* getCacheEntry fail at once with no fallback lookup issued, and fallback
\* lookups are issued only after NotFound on the primary key.
C7_PrimaryFailureAborts ==
    /\ IsFailure(primaryResult) =>
         (Resolved /\ outcome.kind = "error" /\ LookupsIssued = 1)
    /\ LookupsIssued > 1 => IsNotFound(primaryResult)

\* C8: with the primary key not found, getCacheEntry returns the digest of the
\* first output of the first restore key, in the order of restoreKeys, whose
\* lookup returned an association with an output, in whatever order the
\* lookups completed.
C8_FirstDeclaredFallbackWins ==
    (Resolved /\ IsNotFound(primaryResult) /\ HitIndices # {}) =>
        /\ outcome.kind = "ok"
        /\ outcome.value = proms[FirstHit].outputFiles[1].digest

\* C8 witness: the first restore key is not found, the second is a hit, and
\* the second lookup completed first.
C8_Witness ==
    /\ Resolved
    /\ IsNotFound(primaryResult)
    /\ Len(proms) >= 2
    /\ IsNotFound(proms[1])
    /\ IsHit(proms[2])
    /\ settleOrder[1] = 2

\* C9: when the primary lookup and every fallback lookup end in NotFound, or
\* the primary does and there are no restore keys, getCacheEntry returns
\* undefined and raises nothing.
C9_AllNotFoundIsMiss ==
    (Resolved /\ IsNotFound(primaryResult)
       /\ \A i \in 1 .. Len(proms) : IsNotFound(proms[i]))
      => (outcome.kind = "ok" /\ outcome.value = Undefined)

\* C9 witness: the primary and two fallback lookups all ended in NotFound.
C9_Witness ==
    /\ Resolved
    /\ IsNotFound(primaryResult)
    /\ Len(proms) >= 2
    /\ \A i \in 1 .. Len(proms) : IsNotFound(proms[i])

RECURSIVE FailureMessages(_)
\* the messages of the failed lookups among ps, in order
FailureMessages(ps) ==
    IF ps = <<>> THEN <<>>
    ELSE LET p == Head(ps)
             rest == FailureMessages(Tail(ps))
         IN  IF p.kind = "ConnectError" /\ p.code # "NotFound"
             THEN <<[code |-> p.code, message |-> p.rawMessage]>> \o rest
             ELSE IF p.kind = "Error"
             THEN <<[code |-> "none", message |-> p.message]>> \o rest
             ELSE rest

IsLookupMessage(part) == part.message # "undefined"

\* C10: with the primary key not found, no fallback entry a hit and at least
\* one fallback lookup failed with something other than NotFound,
\* getCacheEntry fails with an error whose message holds the messages of all
\* those failures, clean misses among the entries notwithstanding.
C10_AggregatedFailure ==
    (Resolved /\ IsNotFound(primaryResult) /\ HitIndices = {}
       /\ \E i \in 1 .. Len(proms) : IsFailure(proms[i]))
      => /\ outcome.kind = "error"
         /\ SelectSeq(outcome.message, IsLookupMessage) = FailureMessages(proms)

\* C10 witness: one fallback lookup failed, another was a clean miss.
C10_Witness ==
    /\ Resolved
    /\ IsNotFound(primaryResult)
    /\ HitIndices = {}
    /\ \E i, j \in 1 .. Len(proms) : IsFailure(proms[i]) /\ IsNotFound(proms[j])

\* the ordered scan of the fallback lookups has run
Scanned == Resolved /\ primaryResult.kind = "ConnectError" /\ Len(proms) > 0

\* C20: a fallback lookup that failed with something other than NotFound does
\* not stop the scan: when a later restore key, in the order of restoreKeys,
\* has an association with an output, getCacheEntry returns that entry and
\* throws nothing.  The scan throws only when it found no entry.
C20_ErrorDoesNotStopScan ==
    Scanned =>
        /\ (\E i, j \in 1 .. Len(proms) : i < j /\ IsFailure(proms[i]) /\ IsHit(proms[j]))
             => /\ outcome.kind = "ok"
                /\ outcome.value = proms[FirstHit].outputFiles[1].digest
        /\ outcome.kind = "error" => HitIndices = {}

\* C20 witness: the first fallback lookup failed, the second found an entry.
C20_Witness ==
    /\ Scanned
    /\ Len(proms) = 2
    /\ IsFailure(proms[1])
    /\ IsHit(proms[2])

\* C21: after NotFound on the primary key and with restore keys given, exactly
\* one lookup has been issued per entry of restoreKeys, and getCacheEntry
\* scans and ends only when every one of them has settled, with a result or
\* with a failure: neither an entry found early nor a failed lookup ends the
\* wait for the others.
C21_ScanAfterAllSettled ==
    (IsNotFound(primaryResult) /\ Len(params.restoreKeys) > 0) =>
        /\ Len(proms) = Len(params.restoreKeys)
        /\ LookupsIssued = 1 + Len(params.restoreKeys)
        /\ Resolved =>
             /\ \A i \in 1 .. Len(proms) : proms[i] # Pending
             /\ Len(settleOrder) = Len(proms)

\* C21 witness: the first fallback lookup found an entry at once, the second
\* settled after it with a failure, and getCacheEntry has ended.
C21_Witness ==
    /\ Resolved
    /\ IsNotFound(primaryResult)
    /\ Len(proms) = 2
    /\ settleOrder = <<1, 2>>
    /\ IsHit(proms[1])
    /\ IsFailure(proms[2])

\* an association that records no output
IsEmptyAssociation(p) == p.kind = "ActionResult" /\ Len(p.outputFiles) = 0

\* C24: an association without an output is neither returned as an entry nor
\* taken for a clean miss.  Found under the primary key it makes
\* getCacheEntry throw with the one lookup issued and no fallback lookup;
\* found under a restore key, with no restore key holding an entry with an
\* output, it makes getCacheEntry throw.  Every digest getCacheEntry returns
\* is the first output of an association that has one.
C24_EmptyAssociationIsError ==
    Resolved =>
        /\ IsEmptyAssociation(primaryResult)
             => /\ outcome.kind = "error"
                /\ LookupsIssued = 1
                /\ proms = <<>>
        /\ (Scanned /\ HitIndices = {}
               /\ \E i \in 1 .. Len(proms) : IsEmptyAssociation(proms[i]))
             => outcome.kind = "error"
        /\ (outcome.kind = "ok" /\ outcome.value # Undefined)
             => \/ /\ IsHit(primaryResult)
                   /\ outcome.value = primaryResult.outputFiles[1].digest
                \/ /\ Scanned
                   /\ HitIndices # {}
                   /\ outcome.value = proms[FirstHit].outputFiles[1].digest

\* C24 witness: the primary key was not found, one restore key holds an
\* association without an output, the other was a clean miss, and
\* getCacheEntry has thrown.
C24_Witness ==
    /\ Scanned
    /\ IsNotFound(primaryResult)
    /\ Len(proms) = 2
    /\ IsEmptyAssociation(proms[1])
    /\ IsNotFound(proms[2])
    /\ outcome.kind = "error"

\* ------------------------------------------------ claims: CasCacheService
HasComma(key) == \E i \in 1 .. Len(key) : key[i] = ","

ServiceKeys ==
    IF svcParams.op = "restoreCache"
    THEN <<svcParams.primaryKey>> \o svcParams.restoreKeys
    ELSE <<svcParams.key>>

\* the arguments of the service call are among those the contract refuses
InvalidInput ==
    /\ svcParams.op \in {"saveCache", "restoreCache"}
    /\ \/ Len(svcParams.paths) = 0
       \/ \E i \in 1 .. Len(ServiceKeys) :
            Len(ServiceKeys[i]) > 512 \/ HasComma(ServiceKeys[i])
       \/ svcParams.op = "restoreCache" /\ Len(ServiceKeys) > 10
       \/ /\ svcParams.op = "saveCache"
          /\ svcParams.uploadChunkSize > MAX_GRPC_REQUEST_SIZE \div 1024

\* C11: a saveCache or restoreCache of CasCacheService with an empty path
\* list, a key longer than 512 characters, a key with a comma, more than 10
\* keys at restore, or an upload chunk size above the limit ends by throwing
\* ValidationError, and never issues a remote call (lookup, write stream,
\* registration, read stream).
C11_ValidationBeforeRemote ==
    InvalidInput =>
        /\ rpcLog = <<>>
        /\ svc \in {"save_called", "restore_called", "returned"}
        /\ svc = "returned" =>
             (svcResult.kind = "throw" /\ svcResult.name = "ValidationError")

\* C11 witness: a restoreCache with eleven keys, each of them acceptable, has
\* thrown.
C11_Witness ==
    /\ svc = "returned"
    /\ svcParams.op = "restoreCache"
    /\ Len(svcParams.paths) > 0
    /\ Len(ServiceKeys) = 11
    /\ \A i \in 1 .. Len(ServiceKeys) :
         Len(ServiceKeys[i]) <= 512 /\ ~HasComma(ServiceKeys[i])
    /\ svcResult.kind = "throw"

SaveSucceeded ==
    /\ outcome = [kind |-> "ok", op |-> "saveCache"]
    /\ FullCommit
    /\ Issued("updateActionResult")
    /\ \E h \in DOMAIN actionCache : Len(actionCache[h]) > 0

C13_ArchiveRemovalAttempted ==
    (svc = "returned" /\ archiveCreated) =>
        /\ \E i \in 1 .. Len(unlinks) :
             unlinks[i].path = archivePath /\ unlinks[i].path # ""
        /\ svcResult = pending

\* C13 witness: a saveCache that succeeded and whose removal of the archive
\* failed has returned.
C13_Witness ==
    /\ svc = "returned"
    /\ svcParams.op = "saveCache"
    /\ archiveCreated
    /\ pending = Return(1)
    /\ \E i \in 1 .. Len(unlinks) : ~unlinks[i].removed

\* ------------------------------------------------ claims: getCacheVersion
\* C14: with the salt and the platform fixed, two calls of getCacheVersion give
\* the same fingerprint if and only if their arguments (ordered paths,
\* compression method, enableCrossOsArchive, key) are all equal.
C14_VersionInjective ==
    \A i, j \in 1 .. Len(versionCalls) :
        (versionCalls[i].version = versionCalls[j].version)
          <=> (versionCalls[i].args = versionCalls[j].args)

\* ------------------------------------------ claims: save, then resolve
\* the successful saves whose arguments the running getCacheEntry repeats
SavesOfLookup ==
    {s \in saves : /\ s.args.paths = params.paths
                   /\ s.args.key = params.primaryKey
                   /\ s.args.compressionMethod = params.compressionMethod
                   /\ s.args.enableCrossOsArchive = params.enableCrossOsArchive}

\* C15: after a successful saveCache(paths, key, compression method,
\* enableCrossOsArchive), with no later save under the same fingerprint, a
\* getCacheEntry with the same paths, compression method and flag and with
\* primaryKey = key, whose primary lookup the remote answers, returns the
\* digest that save registered: the hash of its upload and the size of its
\* archive.
C15_SaveThenLookupHits ==
    (Resolved /\ params.op = "getCacheEntry"
       /\ (primaryResult.kind = "ActionResult" \/ IsNotFound(primaryResult)))
      => \A s \in SavesOfLookup :
           /\ outcome.kind = "ok"
           /\ outcome.value = s.digest
           /\ outcome.value.sizeBytes = Len(s.content)
           /\ \E u \in uploads : u.hash = outcome.value.hash

\* C15 witness: such a lookup has returned, over a remote that held an older
\* association under the fingerprint.
C15_Witness ==
    /\ Resolved
    /\ params.op = "getCacheEntry"
    /\ SavesOfLookup # {}
    /\ IsHit(primaryResult)
    /\ \E s \in SavesOfLookup : s.digest # OutputA.digest

\* ---------------------------------------------- claims: restoreCache
\* the resolution of the running restoreCache found an entry
LookupHit ==
    \/ IsHit(primaryResult)
    \/ /\ primaryResult.kind = "ConnectError"
       /\ HitIndices # {}
       /\ \A i \in 1 .. Len(proms) : proms[i] # Pending

\* the key whose lookup produced the entry
MatchedKey ==
    IF IsHit(primaryResult) THEN svcParams.primaryKey
    ELSE svcParams.restoreKeys[FirstHit]

RestoreReturned ==
    svc = "returned" /\ svcParams.op = "restoreCache" /\ svcResult.kind = "return"

\* C16: a restoreCache that returns a string, with lookupOnly or without,
\* returns the key whose lookup produced the entry: the primary key if it
\* matched, else the first restore key that did; after a resolution that found
\* nothing it returns undefined.
C16_ReturnsMatchedKey ==
    RestoreReturned =>
        /\ svcResult # ReturnUndefined =>
             (LookupHit /\ svcResult.value = MatchedKey)
        /\ ~LookupHit => svcResult = ReturnUndefined

\* ------------------------------------------- claims: the upload chunk size
\* a saveCache of CasCacheService has passed validation and its upload runs
Uploading == svc = "save_upload" /\ pc \in {"write_iter", "write_sent"}

\* the frame size the UploadChunkSize input stands for: n KB, 64 KB if unset
DocumentedFrameBytes ==
    IF svcParams.uploadChunkSize = 0 THEN 64 * 1024
    ELSE svcParams.uploadChunkSize * 1024

\* C17: in a save that passed validation with UploadChunkSize = n, every
\* upload frame carries at most n * 1024 bytes of data (64 * 1024 when the
\* input is unset), and every full frame before the last, one that the file
\* reader filled to its chunk size, carries exactly that many.
C17_ChunkSizeInKB ==
    Uploading =>
        /\ \A i \in 1 .. Len(frames) : Len(frames[i].data) <= DocumentedFrameBytes
        /\ \A i \in 1 .. Len(frames) - 1 :
             Len(frames[i].data) = file.chunkSize
               => Len(frames[i].data) = DocumentedFrameBytes

\* C18: in a save that passed validation, whatever chunk size was given or
\* defaulted, no upload frame carries more data bytes than the effective chunk
\* size (uploadChunkSize || MESSAGE_SIZE), and the effective chunk size is at
\* most MAX_GRPC_REQUEST_SIZE = 4 * 1024 * 1024 - 1024.
C18_FramesWithinLimit ==
    Uploading =>
        /\ file.chunkSize = (IF svcParams.uploadChunkSize = 0 THEN 65536
                             ELSE svcParams.uploadChunkSize)
        /\ file.chunkSize <= 4 * 1024 * 1024 - 1024
        /\ \A i \in 1 .. Len(frames) : Len(frames[i].data) <= file.chunkSize

\* C18 witness: an upload with the largest chunk size that passes validation
\* has sent its frames.
C18_Witness ==
    /\ Uploading
    /\ pc = "write_sent"
    /\ svcParams.uploadChunkSize = MAX_GRPC_REQUEST_SIZE \div KB
    /\ Len(frames) >= 1

\* the digest of the entry the resolution found
MatchedDigest ==
    IF IsHit(primaryResult) THEN primaryResult.outputFiles[1].digest
    ELSE proms[FirstHit].outputFiles[1].digest

\* C19: restoreCache opens a read stream only after the resolution found an
\* entry, for that entry's digest, and only when lookupOnly is not set; on a
\* miss, on a failed resolution and with lookupOnly no read stream is opened,
\* and extractTar is called only after a download that succeeded.
C19_DownloadOnlyAfterHit ==
    svcParams.op = "restoreCache" =>
        /\ Issued("read") =>
             /\ ~svcParams.lookupOnly
             /\ LookupHit
             /\ params.op = "downloadCache"
             /\ params.blobDigest = MatchedDigest
        /\ unpacked =>
             /\ Issued("read")
             /\ outcome.kind = "ok"
             /\ outcome.op = "downloadCache"

\* C19 witness: a restoreCache with lookupOnly has returned after a hit.
C19_Witness ==
    /\ svc = "returned"
    /\ svcParams.op = "restoreCache"
    /\ svcParams.lookupOnly
    /\ LookupHit
    /\ svcResult.kind = "return"
    /\ svcResult # ReturnUndefined

\* the running restoreCache downloaded, and the download failed
DownloadFailed ==
    /\ svcParams.op = "restoreCache"
    /\ svc \in {"finally", "returned"}
    /\ outcome.kind = "error"
    /\ outcome.op = "downloadCache"

\* C22: a download whose read stream fails, after any number of chunks, does
\* not end as a success: downloadCache throws, restoreCache does not call
\* extractTar, it tries to remove the file at archivePath before it returns,
\* and it returns undefined.  What extractTar is called on is the whole blob.
C22_PartialDownloadIsMiss ==
    /\ DownloadFailed =>
         /\ ~unpacked
         /\ pending = ReturnUndefined
         /\ svc = "returned" =>
              /\ svcResult = ReturnUndefined
              /\ \E i \in 1 .. Len(unlinks) : unlinks[i].path = TempArchivePath
    /\ (svcParams.op = "restoreCache" /\ unpacked) =>
         /\ ReadResource(params.blobDigest) \in DOMAIN blobs
         /\ archive = blobs[ReadResource(params.blobDigest)]

\* C22 witness: the read stream failed after one of two bytes and restoreCache
\* has returned.
C22_Witness ==
    /\ DownloadFailed
    /\ svc = "returned"
    /\ Len(archive) = 1
    /\ params.blobDigest.sizeBytes = 2

\* ---------------------------------------------- claims: a failed save
Count(rpc) == Cardinality({i \in 1 .. Len(rpcLog) : rpcLog[i] = rpc})

\* the blob of the archive is in the remote store
BlobStored ==
    \E name \in DOMAIN blobs : name.size = Len(archive) /\ blobs[name] = archive

SaveEndedWith(error) ==
    /\ svcParams.op = "saveCache"
    /\ svc \in {"finally", "returned"}
    /\ outcome.kind = "error"
    /\ outcome.op = "saveCache"
    /\ outcome.error = error

====
